---- MODULE Spec2Model ----
(***************************************************************************)
(* Partial update of an Order entity: the spread-based update             *)
(* (riskyUpdateOrder / riskyUpdateConfig) and the explicit update          *)
(* (safeUpdateOrder / safeUpdateConfig) of libs/ts-risks.                  *)
(*                                                                         *)
(* JavaScript objects are modelled as a heap.  An object is a prototype    *)
(* tag and a function from its own enumerable property names to values;    *)
(* a property the object does not own reads as undefined.  The metadata    *)
(* property holds a REFERENCE (an index into the heap of mappings), so     *)
(* that sharing of a nested mapping between two objects is visible.        *)
(***************************************************************************)
EXTENDS Integers, Sequences, FiniteSets, TLC

VARIABLES
    file,     \* the test file whose Order class and functions are in use
    orders,   \* heap of Order instances and plain objects of Order shape
    updates,  \* heap of the update objects the callers passed
    maps,     \* heap of metadata mappings
    calls,    \* the calls made so far, in order
    written   \* the property writes made so far by the callers, in order

vars == <<file, orders, updates, maps, calls, written>>

----
\* Bounds of the model.
MaxCalls == 1
MaxChain == 2
MaxWrites == 2

\* The two test files that each declare their own Order class.
SpreadFile == "spread-operator.spec.ts"
ConfigFile == "part_001"
Files == {SpreadFile, ConfigFile}

\* status: 'PENDING' | 'PAID' | 'CANCELLED'
StatusEnum == {"PENDING", "PAID", "CANCELLED"}

\* Property names of an Order.
ScalarFields == {"status", "amount"}
Fields == {"id", "amount", "status", "metadata"}

\* Values the callers put into the fields (test data).
OrderIds == {"o_123"}
OrderAmounts == {100}
OrderStatuses == {"PENDING", "PAID"}
UpdateIds == {"o_999"}
UpdateAmounts == {0, 200}
UpdateStatuses == {"PAID", "UNKNOWN"}
MetaKeys == {"campaign", "referrer", "traceId"}
OrderMetaKeys == {"campaign", "referrer"}
UpdateMetaKeys == {"referrer", "traceId"}
OrderMetaVals == {"google"}
UpdateMetaVals == {"xyz_999"}
WriteStatuses == {"CANCELLED"}
WriteAmounts == {300}
WriteMetaVals == {"changed"}

----
\* JavaScript object semantics.

\* The object with no own property.
EmptyObject == [k \in {} |-> 0]

\* { ...a, ...b } and Object.assign(a, b): the own properties of a, then
\* those of b, b's value taking the place of a's for a name both own.
Spread(a, b) == [k \in (DOMAIN a) \cup (DOMAIN b) |-> IF k \in DOMAIN b THEN b[k] ELSE a[k]]

\* obj.k = v
Put(obj, k, v) == Spread(obj, [x \in {k} |-> v])

\* Does obj own property k (with a value other than undefined)?
Has(obj, k) == k \in DOMAIN obj

\* if (updates.k): the property is there and its value is not falsy.
\* '' and 0 are falsy; every object, the empty one included, is truthy.
Truthy(obj, k) ==
    /\ Has(obj, k)
    /\ (k = "status" => obj[k] # "")
    /\ (k = "amount" => obj[k] # 0)

\* All partial mappings from keys to vals.
PartialMaps(keys, vals) == UNION {[d -> vals] : d \in SUBSET keys}

\* ...o.metadata: the mapping behind the reference; spreading undefined
\* contributes no property.
MetaOf(heap, obj) == IF Has(obj, "metadata") THEN heap[obj.metadata] ELSE EmptyObject

----
\* The Order class and the two update functions.

\* Variant: const updated = { ...original }, a plain object in place of
\* an instance.
NewOrderPlain(partial) == [proto |-> "Object", props |-> Spread(EmptyObject, partial)]

\* class Order: constructor(partial) { Object.assign(this, partial) }
\* A new instance whose prototype is Order.prototype and whose own
\* properties are copied one by one from partial (references are copied
\* as references).
NewOrder(partial) == [proto |-> "Order", props |-> Spread(EmptyObject, partial)]

\* isPaid(): this.status === 'PAID'
isPaid(obj) == Has(obj.props, "status") /\ obj.props.status = "PAID"

\* obj.isPaid() can be called: the method lives on Order.prototype of
\* spread-operator.spec.ts; the Order class of part_001 declares no method
\* and a plain object has none.
HasIsPaid(f, obj) == f = SpreadFile /\ obj.proto = "Order"

\* Variant: the id of the update is copied with its status.
AssignStatusAndId(updated, upd) ==
    LET p == IF Truthy(upd, "status") THEN Put(updated, "status", upd.status) ELSE updated
    IN  IF Has(upd, "id") THEN Put(p, "id", upd.id) ELSE p

\* if (updates.status) updated.status = updates.status
AssignStatus(updated, upd) ==
    IF Truthy(upd, "status") THEN Put(updated, "status", upd.status) ELSE updated

\* Variant: updated.amount = updates.amount with no condition, which
\* leaves amount undefined when the update has none.
AssignAmountUnguarded(updated, upd) ==
    IF Has(upd, "amount")
    THEN Put(updated, "amount", upd.amount)
    ELSE [k \in (DOMAIN updated) \ {"amount"} |-> updated[k]]

\* if (updates.amount) updated.amount = updates.amount
AssignAmount(updated, upd) ==
    IF Truthy(upd, "amount") THEN Put(updated, "amount", upd.amount) ELSE updated

\* Variant: { ...updates.metadata, ...original.metadata }
MergedMetadataOriginalWins(origMeta, updMeta) == Spread(updMeta, origMeta)

\* { ...original.metadata, ...updates.metadata }
MergedMetadata(origMeta, updMeta) == Spread(origMeta, updMeta)

\* Variant: Object.assign(original.metadata, updates.metadata), which
\* writes the merge into the original's own mapping.
StoreMergedInPlace(heap, original, merged) ==
    IF Has(original.props, "metadata")
    THEN Append([heap EXCEPT ![original.props.metadata] = merged], merged)
    ELSE Append(heap, merged)

\* updated.metadata = { ... }: the object literal is a new mapping on the
\* heap; no mapping that was there is written to.
StoreMerged(heap, original, merged) == Append(heap, merged)

\* Variant: const updated = original, the assignments made on the original
\* itself, which is returned.
SafeUpdateInPlace(i, upd, oheap, mheap) ==
    LET original == oheap[i]
        p1 == AssignStatus(original.props, upd)
        p2 == AssignAmount(p1, upd)
        merged == MergedMetadata(MetaOf(mheap, original.props), MetaOf(mheap, upd))
        mheap2 == IF Truthy(upd, "metadata") THEN StoreMerged(mheap, original, merged) ELSE mheap
        p3 == IF Truthy(upd, "metadata") THEN Put(p2, "metadata", Len(mheap2)) ELSE p2
    IN  [orders |-> [oheap EXCEPT ![i].props = p3], maps |-> mheap2, result |-> i]

\* safeUpdateOrder / safeUpdateConfig (the same statements in both files),
\* called on the instance at index i of the heap oheap: the two heaps after
\* the call and the index of the returned instance.
SafeUpdate(i, upd, oheap, mheap) ==
    LET original == oheap[i]
        updated == NewOrder(original.props)
        p1 == AssignStatus(updated.props, upd)
        p2 == AssignAmount(p1, upd)
        merged == MergedMetadata(MetaOf(mheap, original.props), MetaOf(mheap, upd))
        mheap2 == IF Truthy(upd, "metadata") THEN StoreMerged(mheap, original, merged) ELSE mheap
        p3 == IF Truthy(upd, "metadata") THEN Put(p2, "metadata", Len(mheap2)) ELSE p2
    IN  [orders |-> Append(oheap, [proto |-> updated.proto, props |-> p3]),
         maps |-> mheap2,
         result |-> Len(oheap) + 1]

\* Variant: return { ...updates, ...original }
RiskyUpdateReversed(i, upd, oheap, mheap) ==
    [orders |-> Append(oheap, [proto |-> "Object", props |-> Spread(upd, oheap[i].props)]),
     maps |-> mheap,
     result |-> Len(oheap) + 1]

\* riskyUpdateOrder / riskyUpdateConfig: return { ...original, ...updates },
\* an object literal, so a new plain object, with the own properties of
\* original and then those of updates.
RiskyUpdate(i, upd, oheap, mheap) ==
    [orders |-> Append(oheap, [proto |-> "Object", props |-> Spread(oheap[i].props, upd)]),
     maps |-> mheap,
     result |-> Len(oheap) + 1]

----
\* Inputs.

\* The scalar part of an object literal: each of id, amount and status is
\* either left out or given one of the values.
Scalars(ids, amounts, statuses) ==
    { Spread(Spread(i, a), s) :
        i \in {EmptyObject} \cup {[x \in {"id"} |-> v] : v \in ids},
        a \in {EmptyObject} \cup {[x \in {"amount"} |-> v] : v \in amounts},
        s \in {EmptyObject} \cup {[x \in {"status"} |-> v] : v \in statuses} }

\* new Order({ id: ..., ... }) in the tests: the id is always given.
OrderPartials == { p \in Scalars(OrderIds, OrderAmounts, OrderStatuses) : Has(p, "id") }
OrderMetas == PartialMaps(OrderMetaKeys, OrderMetaVals)

\* The updates the callers pass.
UpdatePartials == Scalars(UpdateIds, UpdateAmounts, UpdateStatuses)
UpdateMetas == PartialMaps(UpdateMetaKeys, UpdateMetaVals)

\* The updates of the chained calls: fewer of them, so that calls on the
\* results of calls stay within reach.
ChainPartials == Scalars(UpdateIds, {}, {"PAID"})
ChainMetas == { m \in UpdateMetas : DOMAIN m = {"traceId"} }

\* An object literal with a nested metadata literal: the nested mapping is
\* allocated on the heap and the object holds the reference to it.
WithMeta(p, heap) == Put(p, "metadata", Len(heap) + 1)

\* The caller's update literal: the update object, the heap with its
\* nested mapping, and the nested mapping as written.
UpdateLiterals(partials, metas, heap) ==
    { [upd |-> p, maps |-> heap, meta |-> EmptyObject] : p \in partials }
    \cup { [upd |-> WithMeta(p, heap), maps |-> Append(heap, m), meta |-> m] :
             p \in partials, m \in metas }

SafeOps == {"safeUpdateOrder", "safeUpdateConfig"}
RiskyOps == {"riskyUpdateOrder", "riskyUpdateConfig"}

----
TypeOK ==
    /\ file \in Files
    /\ Len(orders) >= 1
    /\ \A i \in DOMAIN orders :
        /\ orders[i].proto \in {"Order", "Object"}
        /\ DOMAIN orders[i].props \subseteq Fields
        /\ Has(orders[i].props, "metadata") => orders[i].props.metadata \in DOMAIN maps
    /\ \A j \in DOMAIN updates :
        /\ DOMAIN updates[j] \subseteq Fields
        /\ Has(updates[j], "metadata") => updates[j].metadata \in DOMAIN maps
    /\ \A m \in DOMAIN maps : DOMAIN maps[m] \subseteq MetaKeys
    /\ \A k \in DOMAIN calls :
        /\ calls[k].op \in SafeOps \cup RiskyOps
        /\ calls[k].original \in DOMAIN orders
        /\ calls[k].result \in DOMAIN orders
        /\ calls[k].updates \in DOMAIN updates
    /\ \A w \in DOMAIN written : written[w].target \in DOMAIN orders

\* The state after the test has constructed its order: new Order({...}).
Init ==
    /\ file \in Files
    /\ updates = << >>
    /\ calls = << >>
    /\ written = << >>
    /\ \E p \in OrderPartials :
        \/ /\ orders = << NewOrder(p) >>
           /\ maps = << >>
        \/ \E m \in OrderMetas :
            /\ maps = << m >>
            /\ orders = << NewOrder(WithMeta(p, << >>)) >>

\* A call name(original, updates) that returns normally: neither function
\* has a throw statement and no statement of theirs can throw on an object.
Call(name, r, i, lit) ==
    /\ orders' = r.orders
    /\ maps' = r.maps
    /\ updates' = Append(updates, lit.upd)
    /\ calls' = Append(calls, [op |-> name, original |-> i, updates |-> Len(updates) + 1,
                               arg |-> [props |-> lit.upd, meta |-> lit.meta],
                               result |-> r.result, error |-> "none"])
    /\ UNCHANGED <<file, written>>

safeUpdateOrderOn(partials, metas, bound) ==
    /\ file = SpreadFile
    /\ Len(calls) < bound
    /\ \E i \in DOMAIN orders : \E lit \in UpdateLiterals(partials, metas, maps) :
        Call("safeUpdateOrder", SafeUpdate(i, lit.upd, orders, lit.maps), i, lit)

riskyUpdateOrderOn(partials, metas, bound) ==
    /\ file = SpreadFile
    /\ Len(calls) < bound
    /\ \E i \in DOMAIN orders : \E lit \in UpdateLiterals(partials, metas, maps) :
        Call("riskyUpdateOrder", RiskyUpdate(i, lit.upd, orders, lit.maps), i, lit)

safeUpdateConfigOn(partials, metas, bound) ==
    /\ file = ConfigFile
    /\ Len(calls) < bound
    /\ \E i \in DOMAIN orders : \E lit \in UpdateLiterals(partials, metas, maps) :
        Call("safeUpdateConfig", SafeUpdate(i, lit.upd, orders, lit.maps), i, lit)

riskyUpdateConfigOn(partials, metas, bound) ==
    /\ file = ConfigFile
    /\ Len(calls) < bound
    /\ \E i \in DOMAIN orders : \E lit \in UpdateLiterals(partials, metas, maps) :
        Call("riskyUpdateConfig", RiskyUpdate(i, lit.upd, orders, lit.maps), i, lit)

\* One call on the constructed order, over all the updates.
safeUpdateOrder == safeUpdateOrderOn(UpdatePartials, UpdateMetas, MaxCalls)
riskyUpdateOrder == riskyUpdateOrderOn(UpdatePartials, UpdateMetas, MaxCalls)
safeUpdateConfig == safeUpdateConfigOn(UpdatePartials, UpdateMetas, MaxCalls)
riskyUpdateConfig == riskyUpdateConfigOn(UpdatePartials, UpdateMetas, MaxCalls)

Next ==
    \/ safeUpdateOrder
    \/ riskyUpdateOrder
    \/ safeUpdateConfig
    \/ riskyUpdateConfig

Spec == Init /\ [][Next]_vars

\* Calls on the results of calls.
chainSafeUpdateOrder == safeUpdateOrderOn(ChainPartials, ChainMetas, MaxChain)
chainRiskyUpdateOrder == riskyUpdateOrderOn(ChainPartials, ChainMetas, MaxChain)
chainSafeUpdateConfig == safeUpdateConfigOn(ChainPartials, ChainMetas, MaxChain)
chainRiskyUpdateConfig == riskyUpdateConfigOn(ChainPartials, ChainMetas, MaxChain)

NextChain ==
    \/ chainSafeUpdateOrder
    \/ chainRiskyUpdateOrder
    \/ chainSafeUpdateConfig
    \/ chainRiskyUpdateConfig

SpecChain == Init /\ [][NextChain]_vars

----
\* Property writes by the callers, after the calls: the fields of Order are
\* plain mutable properties and metadata is a plain mutable mapping.

\* orders[t].status = v / orders[t].amount = v
writeField ==
    /\ Len(written) < MaxWrites
    /\ \E t \in DOMAIN orders :
        \E w \in {[field |-> "status", value |-> v] : v \in WriteStatuses}
                 \cup {[field |-> "amount", value |-> v] : v \in WriteAmounts} :
            /\ orders' = [orders EXCEPT ![t].props = Put(@, w.field, w.value)]
            /\ written' = Append(written, [target |-> t, field |-> w.field])
    /\ UNCHANGED <<file, updates, maps, calls>>

\* orders[t].metadata[key] = v: a write through the reference the object
\* holds, into the mapping on the heap.
writeMetadataKey ==
    /\ Len(written) < MaxWrites
    /\ \E t \in DOMAIN orders : \E key \in MetaKeys : \E v \in WriteMetaVals :
        /\ Has(orders[t].props, "metadata")
        /\ maps' = [maps EXCEPT ![orders[t].props.metadata] = Put(@, key, v)]
        /\ written' = Append(written, [target |-> t, field |-> "metadata"])
    /\ UNCHANGED <<file, orders, updates, calls>>

NextWrites ==
    \/ safeUpdateOrder
    \/ riskyUpdateOrder
    \/ safeUpdateConfig
    \/ riskyUpdateConfig
    \/ writeField
    \/ writeMetadataKey

SpecWrites == Init /\ [][NextWrites]_vars

----
\* Reading the heaps at a call.

SafeCalls == { k \in DOMAIN calls : calls[k].op \in SafeOps }
RiskyCalls == { k \in DOMAIN calls : calls[k].op \in RiskyOps }
Orig(k) == orders[calls[k].original]
Res(k) == orders[calls[k].result]
Upd(k) == updates[calls[k].updates]

\* Two objects read the same at property f: both lack it, or both own it
\* with the same value.
SameField(a, b, f) == (Has(a, f) <=> Has(b, f)) /\ (Has(a, f) => a[f] = b[f])

\* What can be observed of the object at index i: its prototype, its own
\* properties and the keys and values of its metadata mapping.
View(i) == [proto |-> orders[i].proto,
            props |-> orders[i].props,
            meta |-> MetaOf(maps, orders[i].props)]

----
\* C1: when the update has a metadata mapping, the metadata of the result
\* of the safe update has exactly the keys of the original's and the
\* update's mappings; a key of the update's mapping has the update's value
\* and a key of the original's mapping alone keeps the original's value.
C1_MetadataUnion ==
    \A k \in SafeCalls :
        Has(Upd(k), "metadata") =>
            LET om == MetaOf(maps, Orig(k).props)
                um == MetaOf(maps, Upd(k))
                rm == MetaOf(maps, Res(k).props)
            IN  /\ Has(Res(k).props, "metadata")
                /\ DOMAIN rm = (DOMAIN om) \cup (DOMAIN um)
                /\ \A key \in DOMAIN um : rm[key] = um[key]
                /\ \A key \in (DOMAIN om) \ (DOMAIN um) : rm[key] = om[key]

\* A safe update where one key is in both mappings with different values,
\* one only in the original's and one only in the update's.
C1_Witness ==
    \E k \in SafeCalls :
        /\ Has(Upd(k), "metadata")
        /\ LET om == MetaOf(maps, Orig(k).props)
               um == MetaOf(maps, Upd(k))
           IN  /\ (DOMAIN om) \ (DOMAIN um) # {}
               /\ (DOMAIN um) \ (DOMAIN om) # {}
               /\ \E key \in (DOMAIN om) \cap (DOMAIN um) : om[key] # um[key]

\* C2: every scalar field the update has is, in the result of the safe
\* update, the update's value, whatever the value (0 included).
C2_PresenceOverwrites ==
    \A k \in SafeCalls : \A f \in ScalarFields :
        Has(Upd(k), f) => Has(Res(k).props, f) /\ Res(k).props[f] = Upd(k)[f]

\* C3: a safe update whose update has a status outside the enumeration
\* fails with InvalidFieldError, and so the status of every result of a safe
\* update is in the enumeration.
C3_InvalidStatusRejected ==
    \A k \in SafeCalls :
        /\ (Has(Upd(k), "status") /\ Upd(k).status \notin StatusEnum) =>
                calls[k].error = "InvalidFieldError"
        /\ Has(Res(k).props, "status") => Res(k).props.status \in StatusEnum

\* C4: a field the update lacks is, in the result of the safe update, as in
\* the original; when the update lacks metadata the result's metadata has
\* the keys and values of the original's.
C4_AbsentFieldsUnchanged ==
    \A k \in SafeCalls :
        /\ \A f \in ScalarFields :
            ~Has(Upd(k), f) => SameField(Res(k).props, Orig(k).props, f)
        /\ ~Has(Upd(k), "metadata") =>
            /\ Has(Res(k).props, "metadata") <=> Has(Orig(k).props, "metadata")
            /\ MetaOf(maps, Res(k).props) = MetaOf(maps, Orig(k).props)

\* A safe update that lacks amount and metadata, on an original that has
\* both, with a status that is written.
C4_Witness ==
    \E k \in SafeCalls :
        /\ ~Has(Upd(k), "amount") /\ ~Has(Upd(k), "metadata")
        /\ Has(Upd(k), "status") /\ Has(Orig(k).props, "status")
        /\ Upd(k).status # Orig(k).props.status
        /\ Has(Orig(k).props, "amount")
        /\ Has(Orig(k).props, "metadata") /\ DOMAIN MetaOf(maps, Orig(k).props) # {}

\* C5: the result of safeUpdateOrder is an Order instance on which isPaid()
\* can be called; isPaid() is true exactly when the result's status is
\* 'PAID', and it is true when the update's status is 'PAID'.
C5_IsPaidOnResult ==
    \A k \in DOMAIN calls :
        calls[k].op = "safeUpdateOrder" =>
            /\ Res(k).proto = "Order"
            /\ HasIsPaid(file, Res(k))
            /\ isPaid(Res(k)) <=>
                (Has(Res(k).props, "status") /\ Res(k).props.status = "PAID")
            /\ (Has(Upd(k), "status") /\ Upd(k).status = "PAID") => isPaid(Res(k))

\* safeUpdateOrder of a PENDING order with status 'PAID'.
C5_Witness ==
    \E k \in DOMAIN calls :
        /\ calls[k].op = "safeUpdateOrder"
        /\ Has(Orig(k).props, "status") /\ Orig(k).props.status = "PENDING"
        /\ Has(Upd(k), "status") /\ Upd(k).status = "PAID"
        /\ isPaid(Res(k))

\* C6: a safe update changes no object and no mapping that was there before
\* the call (the original and its metadata among them), and the update
\* object and its mapping are after the call as the caller wrote them.
C6_OriginalUntouched ==
    [][ (Len(calls') = Len(calls) + 1 /\ calls'[Len(calls')].op \in SafeOps) =>
          LET c == calls'[Len(calls')] IN
          /\ \A i \in DOMAIN orders : i \in DOMAIN orders' /\ orders'[i] = orders[i]
          /\ \A m \in DOMAIN maps : m \in DOMAIN maps' /\ maps'[m] = maps[m]
          /\ \A j \in DOMAIN updates : updates'[j] = updates[j]
          /\ updates'[c.updates] = c.arg.props
          /\ MetaOf(maps', updates'[c.updates]) = c.arg.meta
      ]_vars

\* A safe update with a metadata mapping, on an original with a mapping
\* that shares a key with it, and with a status and an amount to write.
C6_Witness ==
    \E k \in SafeCalls :
        /\ Truthy(Upd(k), "status") /\ Truthy(Upd(k), "amount")
        /\ Has(Upd(k), "metadata") /\ Has(Orig(k).props, "metadata")
        /\ (DOMAIN MetaOf(maps, Upd(k))) \cap (DOMAIN MetaOf(maps, Orig(k).props)) # {}

\* C7: the safe update with the empty update raises no error and returns an
\* instance other than the original that reads as the original in id,
\* amount, status and metadata.
C7_EmptyUpdate ==
    \A k \in SafeCalls :
        DOMAIN Upd(k) = {} =>
            /\ calls[k].error = "none"
            /\ calls[k].result # calls[k].original
            /\ \A f \in {"id", "amount", "status"} :
                SameField(Res(k).props, Orig(k).props, f)
            /\ Has(Res(k).props, "metadata") <=> Has(Orig(k).props, "metadata")
            /\ MetaOf(maps, Res(k).props) = MetaOf(maps, Orig(k).props)

\* The safe update with the empty update, on an order with all four fields.
C7_Witness ==
    \E k \in SafeCalls :
        /\ DOMAIN Upd(k) = {}
        /\ DOMAIN Orig(k).props = Fields
        /\ DOMAIN MetaOf(maps, Orig(k).props) # {}

\* C8: when the update has a metadata mapping, the value the risky update
\* returns has that very mapping as its metadata (no key of the original's
\* mapping alone is left), and is a plain object, not an Order instance,
\* with no isPaid() to call.
C8_RiskyReplacesAndStrips ==
    \A k \in RiskyCalls :
        /\ Res(k).proto = "Object"
        /\ ~HasIsPaid(file, Res(k))
        /\ Has(Upd(k), "metadata") =>
            /\ Has(Res(k).props, "metadata")
            /\ Res(k).props.metadata = Upd(k).metadata
            /\ MetaOf(maps, Res(k).props) = MetaOf(maps, Upd(k))
            /\ \A key \in (DOMAIN MetaOf(maps, Orig(k).props)) \ (DOMAIN MetaOf(maps, Upd(k))) :
                key \notin DOMAIN MetaOf(maps, Res(k).props)

\* A risky update of an Order instance whose mapping has a key the update's
\* mapping lacks.
C8_Witness ==
    \E k \in RiskyCalls :
        /\ Orig(k).proto = "Order"
        /\ Has(Upd(k), "metadata")
        /\ (DOMAIN MetaOf(maps, Orig(k).props)) \ (DOMAIN MetaOf(maps, Upd(k))) # {}
        /\ DOMAIN MetaOf(maps, Upd(k)) # {}

\* C9: after a safe update has returned, a write by the caller to the
\* result (a field, or a key of its metadata) changes nothing that can be
\* observed of the original, and a write to the original changes nothing
\* that can be observed of the result.
C9_NoSharedState ==
    [][ Len(written') = Len(written) + 1 =>
          LET t == written'[Len(written')].target IN
          \A k \in SafeCalls :
              /\ (t = calls[k].result /\ t # calls[k].original) =>
                    View(calls[k].original)' = View(calls[k].original)
              /\ (t = calls[k].original /\ t # calls[k].result) =>
                    View(calls[k].result)' = View(calls[k].result)
      ]_vars

\* The object at index j is the result of the safe update k.
SafeResultOf(j, k) == k \in SafeCalls /\ calls[k].result = j

\* The object a chain of safe updates started from: the original of the
\* safe update that returned j, and so on back.
RECURSIVE SafeRoot(_)
SafeRoot(j) ==
    IF \E k \in DOMAIN calls : SafeResultOf(j, k)
    THEN SafeRoot(calls[CHOOSE k \in DOMAIN calls : SafeResultOf(j, k)].original)
    ELSE j

\* C10: the result of a safe update has the id of its original, whatever
\* id the update has, and so the id of the object its chain of safe updates
\* started from.
C10_IdImmutable ==
    \A k \in SafeCalls :
        /\ SameField(Res(k).props, Orig(k).props, "id")
        /\ SameField(Res(k).props, orders[SafeRoot(calls[k].original)].props, "id")

\* A safe update, with another id, of the result of a safe update with
\* another id.
C10_Witness ==
    \E k1, k2 \in SafeCalls :
        /\ calls[k2].original = calls[k1].result
        /\ calls[k1].original # calls[k1].result
        /\ Has(Upd(k1), "id") /\ Has(Upd(k2), "id")
        /\ Has(Orig(k1).props, "id") /\ Upd(k1).id # Orig(k1).props.id
        /\ Res(k2).props.id = Orig(k1).props.id

====
